---- MODULE Spec2Model ----
(***************************************************************************)
(* Model of pdf-merger-service: the POST /api/merge handler of             *)
(* backend/server.js (order resolution, merge loop, output write, temp     *)
(* cleanup, delayed output deletion), imageToPdf, and the part of the      *)
(* React client that builds the file list and submits it.                  *)
(*                                                                         *)
(* Strings are sequences of one-character strings, so that startsWith,     *)
(* path.extname and toLowerCase are computed as the code computes them.    *)
(***************************************************************************)
EXTENDS Integers, Sequences, FiniteSets, TLC

VARIABLES
    clientFiles,   \* App state `files`: list of {id, file}
    formData,      \* the multipart request in flight: files + order field
    reqFiles,      \* req.files as multer delivers them
    reqOrder,      \* req.body.order
    pc,            \* position of the request in client / handler code
    allFiles,      \* the sequence the handler merges
    idx,           \* position of the running for-loop (merge or cleanup)
    pending,       \* pages copied from the current file, not yet added
    mergedPages,   \* pages of mergedPdf, in order
    disk,          \* paths that exist under uploads/
    removeLog,     \* paths fs.remove was called on
    outputPath,    \* <<>> until the merged output has been written
    response,      \* what the client has been sent
    thrown,        \* the error caught by the handler's catch block
    downloadErr,   \* err argument of the res.download callback
    timer,         \* the setTimeout of the download callback
    hist,          \* which stages of the handler have run
    image,         \* argument of imageToPdf (SpecImage)
    imagePdf,      \* result of imageToPdf (SpecImage)
    parked,        \* the handler variables of a second request, while the
                   \* event loop runs the first (SpecConcurrent)
    issued         \* how many values uuidv4() has returned (SpecConcurrent)

vars == <<clientFiles, formData, reqFiles, reqOrder, pc, allFiles, idx, pending,
          mergedPages, disk, removeLog, outputPath, response, thrown,
          downloadErr, timer, hist, image, imagePdf, parked, issued>>

----------------------------------------------------------------------------
(* Bounds *)

MaxFiles == 2

MaxOrder == 2

TickMs == 60000

(* Program constants *)

GraceDelay == 60000

----------------------------------------------------------------------------
(* Strings *)

StartsWith(s, p) ==
    /\ Len(p) <= Len(s)
    /\ SubSeq(s, 1, Len(p)) = p

Contains(s, p) ==
    \E k \in 0..(Len(s) - Len(p)) : SubSeq(s, k + 1, k + Len(p)) = p

LowerOf(c) ==
    CASE c = "P" -> "p"
      [] c = "D" -> "d"
      [] c = "F" -> "f"
      [] c = "N" -> "n"
      [] c = "G" -> "g"
      [] c = "J" -> "j"
      [] OTHER -> c

ToLowerCase(s) == [k \in 1..Len(s) |-> LowerOf(s[k])]

\* path.extname: from the last "." of the base name to the end; "" when
\* there is none or when it is the first character of the base name.
LastIndexOf(s, c) ==
    LET hits == {k \in 1..Len(s) : s[k] = c}
    IN  IF hits = {} THEN 0 ELSE CHOOSE k \in hits : \A j \in hits : j <= k

ExtName(p) ==
    LET slash == LastIndexOf(p, "/")
        base  == SubSeq(p, slash + 1, Len(p))
        dot   == LastIndexOf(base, ".")
    IN  IF dot <= 1 THEN <<>> ELSE SubSeq(base, dot, Len(base))

DotPdf == <<".", "p", "d", "f">>

DotPng == <<".", "p", "n", "g">>

----------------------------------------------------------------------------
(* JSON text of the order field, as a sequence of tokens *)

LBracket == [t |-> "[", v |-> <<>>]

RBracket == [t |-> "]", v |-> <<>>]

Comma == [t |-> ",", v |-> <<>>]

LBrace == [t |-> "{", v |-> <<>>]

RBrace == [t |-> "}", v |-> <<>>]

NullTok == [t |-> "null", v |-> <<>>]

StrTok(s) == [t |-> "str", v |-> s]

IsScalar(tok) == tok.t \in {"str", "null"}

\* String(x) of a parsed scalar, as startsWith coerces its argument.
ToStr(tok) == IF tok.t = "null" THEN <<"n", "u", "l", "l">> ELSE tok.v

RECURSIVE Join(_)
Join(ids) ==
    IF Len(ids) = 0 THEN <<>>
    ELSE IF Len(ids) = 1 THEN <<StrTok(ids[1])>>
    ELSE <<StrTok(ids[1]), Comma>> \o Join(Tail(ids))

\* JSON.stringify of an array of strings (client, handleMerge).
JSONstringify(ids) == <<LBracket>> \o Join(ids) \o <<RBracket>>

\* JSON.parse: [ok |-> FALSE] is a thrown SyntaxError.
JSONparse(text) ==
    LET n     == Len(text)
        inner == SubSeq(text, 2, n - 1)
        m     == Len(inner)
        wellFormedList ==
            \/ m = 0
            \/ /\ m % 2 = 1
               /\ \A k \in 1..m :
                    IF k % 2 = 1 THEN IsScalar(inner[k]) ELSE inner[k] = Comma
    IN  IF n = 1 /\ IsScalar(text[1])
          THEN [ok |-> TRUE, isArray |-> FALSE, elems |-> <<>>]
        ELSE IF n = 2 /\ text[1] = LBrace /\ text[2] = RBrace
          THEN [ok |-> TRUE, isArray |-> FALSE, elems |-> <<>>]
        ELSE IF n >= 2 /\ text[1] = LBracket /\ text[n] = RBracket /\ wellFormedList
          THEN [ok |-> TRUE, isArray |-> TRUE,
                elems |-> [k \in 1..((m + 1) \div 2) |-> ToStr(inner[2 * k - 1])]]
        ELSE [ok |-> FALSE, isArray |-> FALSE, elems |-> <<>>]

\* order || '[]': an absent field and the empty string are both falsy.
OrderText(order) ==
    IF ~order.present \/ Len(order.text) = 0
      THEN <<LBracket, RBracket>>
      ELSE order.text

----------------------------------------------------------------------------
(* Ordering block of the merge handler *)

\* files.find(f => f.filename.startsWith(id)): index of the first match, 0
\* for undefined.
FindFile(files, id) ==
    LET hits == {k \in 1..Len(files) : StartsWith(files[k].filename, id)}
    IN  IF hits = {} THEN 0 ELSE CHOOSE k \in hits : \A j \in hits : k <= j

RECURSIVE SortedFiles(_, _)
SortedFiles(orderArray, files) ==
    IF Len(orderArray) = 0 THEN <<>>
    ELSE LET k == FindFile(files, orderArray[1])
         IN  (IF k = 0 THEN <<>> ELSE <<files[k]>>)
                \o SortedFiles(Tail(orderArray), files)

IsRemaining(orderArray, f) ==
    ~ \E k \in 1..Len(orderArray) : StartsWith(f.filename, orderArray[k])

RECURSIVE RemainingFiles(_, _)
RemainingFiles(orderArray, files) ==
    IF Len(files) = 0 THEN <<>>
    ELSE (IF IsRemaining(orderArray, files[1]) THEN <<files[1]>> ELSE <<>>)
            \o RemainingFiles(orderArray, Tail(files))

AllFilesOf(orderArray, files) ==
    SortedFiles(orderArray, files) \o RemainingFiles(orderArray, files)

\* Variant of EntryOutcome that parses the order before it looks at the
\* upload list.
EntryOutcomeParseFirst(files, order) ==
    LET parsed == JSONparse(OrderText(order))
    IN  IF ~parsed.ok THEN "syntaxError"
        ELSE IF ~parsed.isArray THEN "typeError"
        ELSE IF Len(files) = 0 THEN "empty"
        ELSE "resolved"

\* What the synchronous head of the handler does with a request: reject an
\* empty upload list, throw on the order field, or resolve the order.
EntryOutcome(files, order) ==
    IF Len(files) = 0 THEN "empty"
    ELSE LET parsed == JSONparse(OrderText(order))
         IN  IF ~parsed.ok THEN "syntaxError"
             ELSE IF ~parsed.isArray THEN "typeError"
             ELSE "resolved"

----------------------------------------------------------------------------
(* Numbers of imageToPdf: a JavaScript number is kept as the fraction n/d; *)
(* d = 0 is NaN.                                                           *)

NaN == [n |-> 0, d |-> 0]

Num(k) == [n |-> k, d |-> 1]

\* px * 72 / density, where density = 0 models metadata.density undefined.
TimesOver(px, k, density) ==
    IF density = 0 THEN NaN ELSE [n |-> px * k, d |-> density]

\* x || k: NaN and 0 are falsy.
OrElse(x, k) == IF x.d = 0 \/ x.n = 0 THEN Num(k) ELSE x

NumEq(x, k) == x.d # 0 /\ x.n = k * x.d

\* The two arguments of pdfDoc.addPage([...]).
PageWidth(metadata) == OrElse(TimesOver(metadata.width, 72, metadata.density), 72)

PageHeight(metadata) == OrElse(TimesOver(metadata.height, 72, metadata.density), 72)

NoPdf == [ok |-> FALSE, width |-> NaN, height |-> NaN, embed |-> "none",
          draw |-> [x |-> 0, y |-> 0, width |-> NaN, height |-> NaN]]

\* sharp(imageBuffer).metadata() resolves for the raster formats sharp
\* reads, WEBP among them.
SharpDecodes(content) == content.fmt \in {"png", "jpeg", "webp"}

\* The embedder imageToPdf picks: embedPng for a '.png' path, embedJpg for
\* every other path.
EmbedderOf(imagePath) ==
    IF ToLowerCase(ExtName(imagePath)) = DotPng THEN "png" ELSE "jpg"

\* pdfDoc.embedPng takes PNG bytes only, pdfDoc.embedJpg JPEG bytes only;
\* on other bytes they throw.
Embeds(embed, content) ==
    \/ embed = "png" /\ content.fmt = "png"
    \/ embed = "jpg" /\ content.fmt = "jpeg"

\* imageToPdf(imagePath), content being the bytes at imagePath. ok = FALSE
\* is a rejected promise.
ImageToPdf(imagePath, content) ==
    LET decodes == SharpDecodes(content)
        embed   == EmbedderOf(imagePath)
        embeds  == Embeds(embed, content)
        w       == PageWidth(content)
        h       == PageHeight(content)
    IN  IF ~decodes \/ ~embeds THEN NoPdf
        ELSE [ok |-> TRUE, width |-> w, height |-> h, embed |-> embed,
              draw |-> [x |-> 0, y |-> 0, width |-> w, height |-> h]]

----------------------------------------------------------------------------
(* Uploads *)

Content(fmt, pages, w, h, density) ==
    [fmt |-> fmt, pages |-> pages, width |-> w, height |-> h, density |-> density]

\* The File objects a user can drop: name, declared type, bytes.
Catalog ==
    { [name |-> <<"a", ".", "P", "D", "F">>, type |-> "application/pdf",
       content |-> Content("pdf", 2, 0, 0, 0)],
      [name |-> <<"c", ".", "p", "d", "f">>, type |-> "application/pdf",
       content |-> Content("corrupt", 0, 0, 0, 0)],
      [name |-> <<"d", ".", "p", "n", "g">>, type |-> "image/png",
       content |-> Content("png", 0, 200, 100, 0)],
      [name |-> <<"e", ".", "j", "p", "g">>, type |-> "image/jpeg",
       content |-> Content("jpeg", 0, 100, 200, 72)] }

\* Values of uuidv4(), shortened to two characters.
Uuids == { <<"9", "0">>, <<"9", "9">>, <<"0", "9">> }

\* Identifiers an order descriptor may hold: the empty string (a prefix of
\* every name), a prefix of one or two of the uuids, a prefix of none.
OrderIds == { <<>>, <<"9">>, <<"z">> }

SeqsUpTo(S, n) == UNION {[1..k -> S] : k \in 0..n}

TempDir == <<"u", "/", "t", "/">>

UploadsDir == <<"u", "/">>

AllowedTypes ==
    {"application/pdf", "image/jpeg", "image/png", "image/jpg", "image/webp"}

FileFilter(file) == file.type \in AllowedTypes

\* multer.diskStorage filename: `${uuidv4()}-${file.originalname}`.
\* A storage name that is the original filename alone.
StorageNameWithoutUuid(uuid, file) == file.name

StorageName(uuid, file) == uuid \o <<"-">> \o file.name

StoredFile(uuid, file) ==
    [filename     |-> StorageName(uuid, file),
     originalname |-> file.name,
     mimetype     |-> file.type,
     path         |-> TempDir \o StorageName(uuid, file),
     content      |-> file.content]

PathsOf(files) == {files[k].path : k \in 1..Len(files)}

Injective(us) == \A a, b \in 1..Len(us) : a # b => us[a] # us[b]

\* Values of req.body.order.
Absent == [present |-> FALSE, text |-> <<>>]

Field(text) == [present |-> TRUE, text |-> text]

MalformedTexts ==
    { <<LBracket>>, <<LBrace, RBrace>>, <<NullTok>> }

OrderFields ==
    {Absent, Field(<<>>)}
        \cup {Field(JSONstringify(ids)) : ids \in SeqsUpTo(OrderIds, MaxOrder)}
        \cup {Field(t) : t \in MalformedTexts}

----------------------------------------------------------------------------
(* Merge loop body *)

PageOf(file, k) == [file |-> file.filename, no |-> k]

\* The branch of the merge loop a file takes: by the extension of its
\* original name.
BranchOf(file) ==
    IF ToLowerCase(ExtName(file.originalname)) = DotPdf THEN "pdf" ELSE "image"

\* The calls of pdfDoc.embedPng / embedJpg made while a file is loaded: one,
\* with the file's bytes as they were uploaded, when the file takes the
\* image branch and sharp reads it.
EmbedCalls(file) ==
    IF BranchOf(file) = "image" /\ SharpDecodes(file.content)
      THEN <<[embed |-> EmbedderOf(file.path), fmt |-> file.content.fmt,
              type |-> file.mimetype]>>
      ELSE <<>>

\* The try block of the merge loop for one file: the pages it will add, or
\* ok = FALSE when it throws.
LoadPages(file) ==
    IF BranchOf(file) = "pdf"
          THEN IF file.content.fmt = "pdf"
                 THEN [ok |-> TRUE,
                       pages |-> [k \in 1..file.content.pages |-> PageOf(file, k)]]
                 ELSE [ok |-> FALSE, pages |-> <<>>]
          ELSE IF ImageToPdf(file.path, file.content).ok
                 THEN [ok |-> TRUE, pages |-> <<PageOf(file, 1)>>]
                 ELSE [ok |-> FALSE, pages |-> <<>>]

\* Variant of AddPages that inserts the copied pages at the front.
AddPagesInFront(doc, pages) == pages \o doc

\* copiedPages.forEach(page => mergedPdf.addPage(page))
AddPages(doc, pages) == doc \o pages

\* Variant of FailedToProcess that does not name the file.
FailedWithoutName(file) == <<"Failed to process file">>

FailedToProcess(file) == <<"Failed to process ">> \o file.originalname

NoError == [stage |-> "none", message |-> <<>>, at |-> 0]

Error(stage, message, at) == [stage |-> stage, message |-> message, at |-> at]

\* error.message || 'Failed to merge files'
ErrorBody(error) ==
    IF Len(error.message) = 0 THEN <<"Failed to merge files">> ELSE error.message

NoResponse == [status |-> 0, kind |-> "none", error |-> <<>>]

\* Variant of CleanupDelay that deletes at once after a failed download.
CleanupDelayNoneOnError(err) == IF err THEN 0 ELSE GraceDelay

\* Delay of the setTimeout in the res.download callback.
CleanupDelay(err) == GraceDelay

----------------------------------------------------------------------------
(* Initial states *)

NoImage == [path |-> <<>>, content |-> Content("none", 0, 0, 0, 0)]

NoTimer == [armed |-> FALSE, fired |-> FALSE, delay |-> 0, elapsed |-> 0]

NoForm == [files |-> <<>>, order |-> Absent]

\* The variables of a request that has not arrived.
NoRequest ==
    [formData |-> NoForm, reqFiles |-> <<>>, reqOrder |-> Absent,
     pc |-> "listening", allFiles |-> <<>>, idx |-> 0, pending |-> <<>>,
     mergedPages |-> <<>>, outputPath |-> <<>>, response |-> NoResponse,
     thrown |-> NoError, downloadErr |-> FALSE, timer |-> NoTimer,
     hist |-> [parsed |-> FALSE, created |-> FALSE, loaded |-> <<>>,
               branch |-> <<>>, embeds |-> <<>>]]

Quiet ==
    /\ parked = NoRequest
    /\ issued = 0
    /\ clientFiles = <<>>
    /\ reqFiles = <<>>
    /\ reqOrder = Absent
    /\ allFiles = <<>>
    /\ idx = 0
    /\ pending = <<>>
    /\ mergedPages = <<>>
    /\ disk = {}
    /\ removeLog = {}
    /\ outputPath = <<>>
    /\ response = NoResponse
    /\ thrown = NoError
    /\ downloadErr = FALSE
    /\ timer = NoTimer
    /\ hist = [parsed |-> FALSE, created |-> FALSE, loaded |-> <<>>,
               branch |-> <<>>, embeds |-> <<>>]
    /\ imagePdf = NoPdf

\* The server is listening; no request has arrived.
Init ==
    /\ Quiet
    /\ image = NoImage
    /\ pc = "listening"
    /\ formData = NoForm

\* Any multipart request an HTTP client can post to /api/merge.
PostRequest ==
    /\ pc = "listening"
    /\ formData' \in [files : SeqsUpTo(Catalog, MaxFiles), order : OrderFields]
    /\ pc' = "posted"
    /\ UNCHANGED <<clientFiles, reqFiles, reqOrder, allFiles, idx, pending,
                   mergedPages, disk, removeLog, outputPath, response, thrown,
                   downloadErr, timer, hist, image, imagePdf, parked, issued>>

----------------------------------------------------------------------------
(* upload.array('files', 50): multer stores every part before the handler  *)
(* runs; req.files keeps the order of the parts.                           *)

MulterStore ==
    /\ pc = "posted"
    /\ \A k \in 1..Len(formData.files) : FileFilter(formData.files[k])
    /\ \E us \in [1..Len(formData.files) -> Uuids] :
         /\ Injective(us)
         /\ reqFiles' = [k \in 1..Len(formData.files) |->
                            StoredFile(us[k], formData.files[k])]
    /\ reqOrder' = formData.order
    /\ disk' = disk \cup PathsOf(reqFiles')
    /\ pc' = "start"
    /\ UNCHANGED <<clientFiles, formData, allFiles, idx, pending, mergedPages,
                   removeLog, outputPath, response, thrown, downloadErr, timer,
                   hist, image, imagePdf, parked, issued>>

----------------------------------------------------------------------------
(* app.post('/api/merge') *)

RejectEmpty ==
    /\ pc = "start"
    /\ EntryOutcome(reqFiles, reqOrder) = "empty"
    /\ response' = [status |-> 400, kind |-> "json", error |-> <<"No files uploaded">>]
    /\ pc' = "done"
    /\ UNCHANGED <<clientFiles, formData, reqFiles, reqOrder, allFiles, idx,
                   pending, mergedPages, disk, removeLog, outputPath, thrown,
                   downloadErr, timer, hist, image, imagePdf, parked, issued>>

OrderThrows ==
    /\ pc = "start"
    /\ EntryOutcome(reqFiles, reqOrder) \in {"syntaxError", "typeError"}
    /\ thrown' = IF EntryOutcome(reqFiles, reqOrder) = "syntaxError"
                   THEN Error("order", <<"Unexpected token in JSON">>, 0)
                   ELSE Error("order", <<"orderArray.map is not a function">>, 0)
    /\ hist' = [hist EXCEPT !.parsed = TRUE]
    /\ idx' = 1
    /\ pc' = "catch"
    /\ UNCHANGED <<clientFiles, formData, reqFiles, reqOrder, allFiles, pending,
                   mergedPages, disk, removeLog, outputPath, response,
                   downloadErr, timer, image, imagePdf, parked, issued>>

ResolveOrder ==
    /\ pc = "start"
    /\ EntryOutcome(reqFiles, reqOrder) = "resolved"
    /\ allFiles' = AllFilesOf(JSONparse(OrderText(reqOrder)).elems, reqFiles)
    /\ mergedPages' = <<>>
    /\ hist' = [hist EXCEPT !.parsed = TRUE, !.created = TRUE]
    /\ idx' = 1
    /\ pc' = "loop"
    /\ UNCHANGED <<clientFiles, formData, reqFiles, reqOrder, pending, disk,
                   removeLog, outputPath, response, thrown, downloadErr, timer,
                   image, imagePdf, parked, issued>>

LoadFile ==
    /\ pc = "loop"
    /\ idx <= Len(allFiles)
    /\ hist' = [hist EXCEPT !.loaded = Append(@, idx),
                             !.branch = Append(@, BranchOf(allFiles[idx])),
                             !.embeds = @ \o EmbedCalls(allFiles[idx])]
    /\ IF LoadPages(allFiles[idx]).ok
         THEN /\ pending' = LoadPages(allFiles[idx]).pages
              /\ pc' = "add"
              /\ UNCHANGED <<thrown, idx>>
         ELSE /\ thrown' = Error("process", FailedToProcess(allFiles[idx]), idx)
              /\ idx' = 1
              /\ pc' = "catch"
              /\ UNCHANGED pending
    /\ UNCHANGED <<clientFiles, formData, reqFiles, reqOrder, allFiles,
                   mergedPages, disk, removeLog, outputPath, response,
                   downloadErr, timer, image, imagePdf, parked, issued>>

AddCopiedPages ==
    /\ pc = "add"
    /\ mergedPages' = AddPages(mergedPages, pending)
    /\ pending' = <<>>
    /\ idx' = idx + 1
    /\ pc' = "loop"
    /\ UNCHANGED <<clientFiles, formData, reqFiles, reqOrder, allFiles, disk,
                   removeLog, outputPath, response, thrown, downloadErr, timer,
                   hist, image, imagePdf, parked, issued>>

\* mergedPdf.save() resolves or rejects.
SaveMerged ==
    /\ pc = "loop"
    /\ idx > Len(allFiles)
    /\ \E ok \in BOOLEAN :
         IF ok
           THEN /\ pc' = "write"
                /\ UNCHANGED <<thrown, idx>>
           ELSE /\ thrown' = Error("save", <<"save failed">>, 0)
                /\ idx' = 1
                /\ pc' = "catch"
    /\ UNCHANGED <<clientFiles, formData, reqFiles, reqOrder, allFiles, pending,
                   mergedPages, disk, removeLog, outputPath, response,
                   downloadErr, timer, hist, image, imagePdf, parked, issued>>

\* Values of uuidv4() for the output name: one that an upload of the same
\* request may carry too, one that none carries.
OutputUuids == { <<"9", "0">>, <<"f", "f">> }

OutputPathOf(uuid) == UploadsDir \o <<"merged-">> \o uuid \o DotPdf

\* fs.writeFile(outputPath, mergedPdfBytes) resolves or rejects.
WriteOutput ==
    /\ pc = "write"
    /\ \E uuid \in OutputUuids, ok \in BOOLEAN :
         IF ok
           THEN /\ outputPath' = OutputPathOf(uuid)
                /\ disk' = disk \cup {OutputPathOf(uuid)}
                /\ idx' = 1
                /\ pc' = "cleanup"
                /\ UNCHANGED thrown
           ELSE /\ thrown' = Error("write", <<"ENOSPC">>, 0)
                /\ idx' = 1
                /\ pc' = "catch"
                /\ UNCHANGED <<outputPath, disk>>
    /\ UNCHANGED <<clientFiles, formData, reqFiles, reqOrder, allFiles, pending,
                   mergedPages, removeLog, response, downloadErr, timer, hist,
                   image, imagePdf, parked, issued>>

\* await fs.remove(path).catch(console.error): a rejected removal is logged
\* and leaves the file in place.
Remove(path, ok) ==
    /\ removeLog' = removeLog \cup {path}
    /\ disk' = IF ok THEN disk \ {path} ELSE disk

RemoveUpload ==
    /\ pc = "cleanup"
    /\ idx <= Len(allFiles)
    /\ \E ok \in BOOLEAN : Remove(allFiles[idx].path, ok)
    /\ idx' = idx + 1
    /\ UNCHANGED <<clientFiles, formData, reqFiles, reqOrder, pc, allFiles,
                   pending, mergedPages, outputPath, response, thrown,
                   downloadErr, timer, hist, image, imagePdf, parked, issued>>

\* res.download streams the output; its callback receives err or nothing.
Download ==
    /\ pc = "cleanup"
    /\ idx > Len(allFiles)
    /\ \E err \in BOOLEAN :
         /\ downloadErr' = err
         /\ response' = IF err
                          THEN [status |-> 200, kind |-> "aborted", error |-> <<>>]
                          ELSE [status |-> 200, kind |-> "pdf", error |-> <<>>]
    /\ pc' = "callback"
    /\ UNCHANGED <<clientFiles, formData, reqFiles, reqOrder, allFiles, idx,
                   pending, mergedPages, disk, removeLog, outputPath, thrown,
                   timer, hist, image, imagePdf, parked, issued>>

DownloadCallback ==
    /\ pc = "callback"
    /\ timer' = [armed |-> TRUE, fired |-> FALSE,
                 delay |-> CleanupDelay(downloadErr), elapsed |-> 0]
    /\ pc' = "waiting"
    /\ UNCHANGED <<clientFiles, formData, reqFiles, reqOrder, allFiles, idx,
                   pending, mergedPages, disk, removeLog, outputPath, response,
                   thrown, downloadErr, hist, image, imagePdf, parked, issued>>

\* Time passes while the timeout is pending.
Tick ==
    /\ timer.armed /\ ~timer.fired
    /\ timer.elapsed < timer.delay
    /\ timer' = [timer EXCEPT !.elapsed = @ + TickMs]
    /\ UNCHANGED <<clientFiles, formData, reqFiles, reqOrder, pc, allFiles, idx,
                   pending, mergedPages, disk, removeLog, outputPath, response,
                   thrown, downloadErr, hist, image, imagePdf, parked, issued>>

\* The timeout callback: fs.remove(outputPath).catch(console.error)
TimerFire ==
    /\ timer.armed /\ ~timer.fired
    /\ timer.elapsed >= timer.delay
    /\ \E ok \in BOOLEAN : Remove(outputPath, ok)
    /\ timer' = [timer EXCEPT !.fired = TRUE]
    /\ pc' = "done"
    /\ UNCHANGED <<clientFiles, formData, reqFiles, reqOrder, allFiles, idx,
                   pending, mergedPages, outputPath, response, thrown,
                   downloadErr, hist, image, imagePdf, parked, issued>>

\* catch (error): remove every req.files entry, then answer 500.
RemoveOnError ==
    /\ pc = "catch"
    /\ idx <= Len(reqFiles)
    /\ \E ok \in BOOLEAN : Remove(reqFiles[idx].path, ok)
    /\ idx' = idx + 1
    /\ UNCHANGED <<clientFiles, formData, reqFiles, reqOrder, pc, allFiles,
                   pending, mergedPages, outputPath, response, thrown,
                   downloadErr, timer, hist, image, imagePdf, parked, issued>>

RespondError ==
    /\ pc = "catch"
    /\ idx > Len(reqFiles)
    /\ response' = [status |-> 500, kind |-> "json", error |-> ErrorBody(thrown)]
    /\ pc' = "done"
    /\ UNCHANGED <<clientFiles, formData, reqFiles, reqOrder, allFiles, idx,
                   pending, mergedPages, disk, removeLog, outputPath, thrown,
                   downloadErr, timer, hist, image, imagePdf, parked, issued>>

Handler ==
    \/ RejectEmpty
    \/ OrderThrows
    \/ ResolveOrder
    \/ LoadFile
    \/ AddCopiedPages
    \/ SaveMerged
    \/ WriteOutput
    \/ RemoveUpload
    \/ Download
    \/ DownloadCallback
    \/ TimerFire
    \/ RemoveOnError
    \/ RespondError

Next ==
    \/ PostRequest
    \/ MulterStore
    \/ Handler
    \/ Tick

Spec == Init /\ [][Next]_vars

----------------------------------------------------------------------------
(* The life of the output file. What becomes of the output does not depend *)
(* on the order field, so the requests are those with no order, a broken   *)
(* order and a one-element order. The event loop runs every continuation   *)
(* that is ready and every timer that is due.                              *)

PlainOrderFields ==
    { Absent, Field(<<LBracket>>), Field(JSONstringify(<< <<"9">> >>)) }

PostPlainRequest ==
    /\ pc = "listening"
    /\ formData' \in [files : SeqsUpTo(Catalog, MaxFiles), order : PlainOrderFields]
    /\ pc' = "posted"
    /\ UNCHANGED <<clientFiles, reqFiles, reqOrder, allFiles, idx, pending,
                   mergedPages, disk, removeLog, outputPath, response, thrown,
                   downloadErr, timer, hist, image, imagePdf, parked, issued>>

NextOutput ==
    \/ PostPlainRequest
    \/ MulterStore
    \/ Handler
    \/ Tick

FairSpec ==
    /\ Init
    /\ [][NextOutput]_vars
    /\ WF_vars(RemoveUpload)
    /\ WF_vars(Download)
    /\ WF_vars(DownloadCallback)
    /\ WF_vars(Tick)
    /\ WF_vars(TimerFire)

----------------------------------------------------------------------------
(* Claims about the merge handler, checked under Spec and FairSpec         *)

\* The handler has run past its synchronous head.
Entered == pc \notin {"ui", "image", "listening", "posted", "start"}

Occurrences(seq, x) == Cardinality({k \in 1..Len(seq) : seq[k] = x})

OrderArray == JSONparse(OrderText(reqOrder)).elems

\* C1: for every order descriptor and every non-empty set of received
\* files, the sequence the handler merges holds every received file exactly
\* once.
C1_EveryFileExactlyOnce ==
    hist.created =>
        /\ Len(allFiles) = Len(reqFiles)
        /\ \A k \in 1..Len(reqFiles) : Occurrences(allFiles, reqFiles[k]) = 1

\* The resolver of the specification: each identifier takes the first file
\* not yet consumed whose storage name starts with it; the files left over
\* follow in receipt order.
FirstFree(files, used, id) ==
    LET hits == {k \in 1..Len(files) :
                    k \notin used /\ StartsWith(files[k].filename, id)}
    IN  IF hits = {} THEN 0 ELSE CHOOSE k \in hits : \A j \in hits : k <= j

RECURSIVE Chosen(_, _, _)
Chosen(ids, files, used) ==
    IF Len(ids) = 0 THEN <<>>
    ELSE LET k == FirstFree(files, used, ids[1])
         IN  IF k = 0 THEN Chosen(Tail(ids), files, used)
             ELSE <<k>> \o Chosen(Tail(ids), files, used \cup {k})

Range(seq) == {seq[k] : k \in 1..Len(seq)}

RECURSIVE Ascending(_, _)
Ascending(S, n) ==
    IF n = 0 THEN <<>>
    ELSE LET rest == Ascending(S, n - 1)
         IN  IF n \in S THEN Append(rest, n) ELSE rest

ResolvedSequence(ids, files) ==
    LET first == Chosen(ids, files, {})
        left  == Ascending((1..Len(files)) \ Range(first), Len(files))
    IN  [k \in 1..Len(first) |-> files[first[k]]]
            \o [k \in 1..Len(left) |-> files[left[k]]]

DistinctReferences(ids, files) ==
    /\ \A a, b \in 1..Len(ids) : a # b => ids[a] # ids[b]
    /\ \A a \in 1..Len(ids) : FindFile(files, ids[a]) # 0

\* C2: when the identifiers are distinct and each references a received
\* file, the merged sequence is the referenced files in descriptor order
\* followed by the unreferenced files in receipt order.
C2_ReferencedFirst ==
    (hist.created /\ DistinctReferences(OrderArray, reqFiles)) =>
        allFiles = ResolvedSequence(OrderArray, reqFiles)

Malformed(order) == ~JSONparse(OrderText(order)).isArray

\* C3: resolving the order never fails the request; a malformed descriptor
\* is treated as the empty sequence and the files are merged in receipt
\* order.
C3_OrderNeverFails ==
    (Entered /\ Len(reqFiles) > 0) =>
        /\ thrown.stage # "order"
        /\ Malformed(reqOrder) => hist.created /\ allFiles = reqFiles

\* C4: when the handler has finished a request with stored uploads, a
\* deletion has been attempted for every stored upload, on every exit path.
C4_EveryUploadRemoved ==
    (pc = "done" /\ Len(reqFiles) > 0) => PathsOf(reqFiles) \subseteq removeLog

\* C5 as stated: after a failed download the output is deleted at once,
\* with no delay.
C5_DeletedAtOnceOnError ==
    (pc \in {"waiting", "done"} /\ downloadErr) => outputPath \in removeLog

\* C5 as amended: once the output has been written its deletion is
\* eventually attempted, and only after the 60 s delay has elapsed since the
\* download callback ran, whether the download failed or succeeded.
C5_DeletedAfterGraceDelay ==
    /\ [](outputPath \in removeLog =>
            timer.armed /\ timer.fired /\ timer.elapsed >= GraceDelay)
    /\ (outputPath # <<>>) ~> (outputPath \in removeLog)

C5_Witness ==
    /\ outputPath # <<>>
    /\ outputPath \in removeLog
    /\ downloadErr
    /\ timer.elapsed >= GraceDelay

FirstFailing(files) ==
    LET bad == {k \in 1..Len(files) : ~LoadPages(files[k]).ok}
    IN  IF bad = {} THEN 0 ELSE CHOOSE k \in bad : \A j \in bad : k <= j

\* C6: if a file of the resolved sequence cannot be processed, no output is
\* written, no PDF is sent, no file after the failing one is processed, and
\* the answer is an error whose message holds that file's original name.
C6_AllOrNothing ==
    LET k == FirstFailing(allFiles)
    IN  k # 0 =>
          /\ outputPath = <<>>
          /\ disk \subseteq PathsOf(reqFiles)
          /\ response.kind # "pdf"
          /\ Len(hist.loaded) <= k
          /\ \A j \in 1..Len(hist.loaded) : hist.loaded[j] = j
          /\ pc = "done" =>
                /\ Len(hist.loaded) = k
                /\ response.status = 500
                /\ response.kind = "json"
                /\ Contains(response.error, allFiles[k].originalname)

C6_Witness ==
    /\ pc = "done"
    /\ Len(allFiles) = 2
    /\ FirstFailing(allFiles) = 1
    /\ response.status = 500

\* C7: a request without files is answered 400 'No files uploaded' before
\* the order is parsed, before a merged document is created and before any
\* file is written or deleted.
C7_EmptyRejectedFirst ==
    (Entered /\ Len(reqFiles) = 0) =>
        /\ pc = "done"
        /\ response = [status |-> 400, kind |-> "json",
                       error |-> <<"No files uploaded">>]
        /\ ~hist.parsed
        /\ ~hist.created
        /\ thrown = NoError
        /\ disk = {} /\ removeLog = {} /\ outputPath = <<>>

C7_Witness ==
    /\ pc = "done"
    /\ Len(reqFiles) = 0
    /\ Malformed(reqOrder)
    /\ response.status = 400

\* What a file contributes to the output: a PDF all of its pages in their
\* order, an image one page.
Contribution(file) ==
    IF file.content.fmt = "pdf"
      THEN [k \in 1..file.content.pages |-> [file |-> file.filename, no |-> k]]
      ELSE <<[file |-> file.filename, no |-> 1]>>

RECURSIVE Concatenation(_)
Concatenation(files) ==
    IF Len(files) = 0 THEN <<>>
    ELSE Contribution(files[1]) \o Concatenation(Tail(files))

RECURSIVE PageCount(_)
PageCount(files) ==
    IF Len(files) = 0 THEN 0
    ELSE (IF files[1].content.fmt = "pdf" THEN files[1].content.pages ELSE 1)
            + PageCount(Tail(files))

\* C8: on a successful merge the output pages are the concatenation, in
\* resolved-sequence order, of each file's contribution, and the page count
\* is the sum of the inputs' page counts; while the loop runs the output is
\* that concatenation for the files done so far.
C8_PagesInResolvedOrder ==
    /\ pc = "loop" => mergedPages = Concatenation(SubSeq(allFiles, 1, idx - 1))
    /\ outputPath # <<>> =>
          /\ mergedPages = Concatenation(allFiles)
          /\ Len(mergedPages) = PageCount(allFiles)

C8_Witness ==
    /\ response.kind = "pdf"
    /\ Len(allFiles) = 2
    /\ allFiles[1].content.fmt = "pdf" /\ allFiles[1].content.pages = 2
    /\ allFiles[2].content.fmt = "png"
    /\ Len(mergedPages) = 3

----------------------------------------------------------------------------
(* The client: App of the React front end *)

\* Values of Math.random().toString(36).substr(2, 9): up to nine base-36
\* digits, none at all when Math.random() returns 0.
ClientIds == OrderIds

InitUI ==
    /\ Quiet
    /\ image = NoImage
    /\ pc = "ui"
    /\ formData = NoForm

\* onDrop: each accepted file is appended with a fresh random id.
OnDrop ==
    /\ pc = "ui"
    /\ \E accepted \in SeqsUpTo(Catalog, MaxFiles) :
         /\ Len(accepted) > 0
         /\ Len(clientFiles) + Len(accepted) <= MaxFiles
         /\ \E ids \in [1..Len(accepted) -> ClientIds] :
              clientFiles' = clientFiles \o
                  [k \in 1..Len(accepted) |-> [id |-> ids[k], file |-> accepted[k]]]
    /\ UNCHANGED <<formData, reqFiles, reqOrder, pc, allFiles, idx, pending,
                   mergedPages, disk, removeLog, outputPath, response, thrown,
                   downloadErr, timer, hist, image, imagePdf, parked, issued>>

\* items.findIndex(item => item.id === id), 1-based
FindIndex(items, id) ==
    CHOOSE k \in 1..Len(items) :
        /\ items[k].id = id
        /\ \A j \in 1..(k - 1) : items[j].id # id

\* arrayMove of @dnd-kit/sortable: take the item out, put it in at `to`.
ArrayMove(items, from, to) ==
    LET without == SubSeq(items, 1, from - 1) \o SubSeq(items, from + 1, Len(items))
    IN  SubSeq(without, 1, to - 1) \o <<items[from]>> \o SubSeq(without, to, Len(without))

HandleDragEnd ==
    /\ pc = "ui"
    /\ \E a, o \in 1..Len(clientFiles) :
         /\ clientFiles[a].id # clientFiles[o].id
         /\ clientFiles' = ArrayMove(clientFiles,
                                     FindIndex(clientFiles, clientFiles[a].id),
                                     FindIndex(clientFiles, clientFiles[o].id))
    /\ UNCHANGED <<formData, reqFiles, reqOrder, pc, allFiles, idx, pending,
                   mergedPages, disk, removeLog, outputPath, response, thrown,
                   downloadErr, timer, hist, image, imagePdf, parked, issued>>

RECURSIVE WithoutId(_, _)
WithoutId(items, id) ==
    IF Len(items) = 0 THEN <<>>
    ELSE (IF items[1].id # id THEN <<items[1]>> ELSE <<>>)
            \o WithoutId(Tail(items), id)

RemoveFile ==
    /\ pc = "ui"
    /\ \E k \in 1..Len(clientFiles) :
         clientFiles' = WithoutId(clientFiles, clientFiles[k].id)
    /\ UNCHANGED <<formData, reqFiles, reqOrder, pc, allFiles, idx, pending,
                   mergedPages, disk, removeLog, outputPath, response, thrown,
                   downloadErr, timer, hist, image, imagePdf, parked, issued>>

\* handleMerge: the files in list order, then order = JSON.stringify(ids).
HandleMerge ==
    /\ pc = "ui"
    /\ Len(clientFiles) # 0
    /\ formData' =
          [files |-> [k \in 1..Len(clientFiles) |-> clientFiles[k].file],
           order |-> Field(JSONstringify(
                        [k \in 1..Len(clientFiles) |-> clientFiles[k].id]))]
    /\ pc' = "posted"
    /\ UNCHANGED <<clientFiles, reqFiles, reqOrder, allFiles, idx, pending,
                   mergedPages, disk, removeLog, outputPath, response, thrown,
                   downloadErr, timer, hist, image, imagePdf, parked, issued>>

NextUI ==
    \/ OnDrop
    \/ HandleDragEnd
    \/ RemoveFile
    \/ HandleMerge
    \/ MulterStore
    \/ ResolveOrder

SpecUI == InitUI /\ [][NextUI]_vars

\* C9: the server merges the files in the top-to-bottom order of the
\* client's list at submission, each listed file exactly once, whatever
\* identifiers the client generated.
C9_ClientOrderKept ==
    hist.created =>
        /\ Len(allFiles) = Len(clientFiles)
        /\ \A k \in 1..Len(allFiles) :
              /\ allFiles[k] = reqFiles[k]
              /\ allFiles[k].originalname = clientFiles[k].file.name

----------------------------------------------------------------------------
(* imageToPdf on its own *)

ImagePaths ==
    { TempDir \o <<"9", "0", "-", "d", ".", "p", "n", "g">>,
      TempDir \o <<"9", "0", "-", "d", ".", "P", "N", "G">>,
      TempDir \o <<"9", "0", "-", "e", ".", "j", "p", "g">> }

Pixels == {72, 100, 200}

\* metadata.density; 0 stands for undefined (no density in the file).
Densities == {0, 72, 144}

Images ==
    [path : ImagePaths,
     content : {Content(fmt, 0, w, h, density) :
                  fmt \in {"png", "jpeg", "webp", "corrupt"},
                  w \in Pixels, h \in Pixels, density \in Densities}]

InitImage ==
    /\ Quiet
    /\ pc = "image"
    /\ formData = NoForm
    /\ image \in Images

ConvertImage ==
    /\ pc = "image"
    /\ imagePdf' = ImageToPdf(image.path, image.content)
    /\ pc' = "converted"
    /\ UNCHANGED <<clientFiles, formData, reqFiles, reqOrder, allFiles, idx,
                   pending, mergedPages, disk, removeLog, outputPath, response,
                   thrown, downloadErr, timer, hist, image,
                   parked, issued>>

NextImage == ConvertImage

SpecImage == InitImage /\ [][NextImage]_vars

\* C10: the page made for an image of W x H pixels is W x H points, also
\* when the image carries no density, and the image is drawn at (0, 0)
\* over the whole page.
C10_PageIsPixelSize ==
    (pc = "converted" /\ imagePdf.ok) =>
        /\ NumEq(imagePdf.width, image.content.width)
        /\ NumEq(imagePdf.height, image.content.height)
        /\ imagePdf.draw = [x |-> 0, y |-> 0,
                            width |-> imagePdf.width, height |-> imagePdf.height]

----------------------------------------------------------------------------
(* Uploads whose declared type, name and bytes need not agree: what any    *)
(* HTTP client can put into a multipart part.                              *)

MixedCatalog ==
    { [name |-> <<"a", ".", "P", "D", "F">>, type |-> "application/pdf",
       content |-> Content("pdf", 2, 0, 0, 0)],
      [name |-> <<"e", ".", "j", "p", "g">>, type |-> "image/jpeg",
       content |-> Content("jpeg", 0, 100, 200, 72)],
      [name |-> <<"g", ".", "p", "n", "g">>, type |-> "application/pdf",
       content |-> Content("pdf", 1, 0, 0, 0)],
      [name |-> <<"h", ".", "p", "d", "f">>, type |-> "image/png",
       content |-> Content("png", 0, 200, 100, 72)],
      [name |-> <<"f", ".", "w", "e", "b", "p">>, type |-> "image/webp",
       content |-> Content("webp", 0, 200, 100, 72)],
      [name |-> <<"t", ".", "t", "x", "t">>, type |-> "text/plain",
       content |-> Content("corrupt", 0, 0, 0, 0)] }

PostMixedRequest ==
    /\ pc = "listening"
    /\ formData' \in [files : SeqsUpTo(MixedCatalog, MaxFiles), order : PlainOrderFields]
    /\ pc' = "posted"
    /\ UNCHANGED <<clientFiles, reqFiles, reqOrder, allFiles, idx, pending,
                   mergedPages, disk, removeLog, outputPath, response, thrown,
                   downloadErr, timer, hist, image, imagePdf, parked, issued>>

\* fileFilter refuses a part: multer fails the request, the handler never
\* runs and the error middleware answers 500.
MulterReject ==
    /\ pc = "posted"
    /\ \E k \in 1..Len(formData.files) : ~FileFilter(formData.files[k])
    /\ response' = [status |-> 500, kind |-> "json",
                    error |-> <<"Invalid file type. Only PDF and images (JPEG, PNG, WEBP) are allowed.">>]
    /\ pc' = "done"
    /\ UNCHANGED <<clientFiles, formData, reqFiles, reqOrder, allFiles, idx,
                   pending, mergedPages, disk, removeLog, outputPath, thrown,
                   downloadErr, timer, hist, image, imagePdf, parked, issued>>

NextDispatch ==
    \/ PostMixedRequest
    \/ MulterStore
    \/ MulterReject
    \/ Handler
    \/ Tick

SpecDispatch == Init /\ [][NextDispatch]_vars

\* The branch a file's declared MIME type calls for.
BranchByType(file) == IF file.mimetype = "application/pdf" THEN "pdf" ELSE "image"

\* C11: every accepted file takes the branch of its declared MIME type:
\* application/pdf is merged by copying pages, an image type goes through
\* the image normalizer, whatever the original filename or extension.
C11_BranchFollowsMimeType ==
    \A j \in 1..Len(hist.loaded) :
        hist.branch[j] = BranchByType(allFiles[hist.loaded[j]])

\* C12: the embedding step never receives bytes that are not of its format:
\* WEBP bytes are never handed to embedPng or embedJpg, embedPng only gets
\* PNG bytes and embedJpg only JPEG bytes.
C12_EmbedderMatchesBytes ==
    \A j \in 1..Len(hist.embeds) :
        /\ hist.embeds[j].fmt # "webp"
        /\ hist.embeds[j].type # "image/webp"
        /\ Embeds(hist.embeds[j].embed, [fmt |-> hist.embeds[j].fmt])

----------------------------------------------------------------------------
(* Two requests in flight.  Node runs one continuation at a time: the      *)
(* handler variables above belong to the request whose continuation runs,  *)
(* `parked' holds those of the other request, and Switch is the event loop *)
(* turning from one to the other at an await.  The disk is shared.         *)

\* The handler variables of the running request.
Locals ==
    [formData |-> formData, reqFiles |-> reqFiles, reqOrder |-> reqOrder,
     pc |-> pc, allFiles |-> allFiles, idx |-> idx, pending |-> pending,
     mergedPages |-> mergedPages, outputPath |-> outputPath,
     response |-> response, thrown |-> thrown, downloadErr |-> downloadErr,
     timer |-> timer, hist |-> hist]

Switch ==
    /\ parked' = Locals
    /\ formData' = parked.formData
    /\ reqFiles' = parked.reqFiles
    /\ reqOrder' = parked.reqOrder
    /\ pc' = parked.pc
    /\ allFiles' = parked.allFiles
    /\ idx' = parked.idx
    /\ pending' = parked.pending
    /\ mergedPages' = parked.mergedPages
    /\ outputPath' = parked.outputPath
    /\ response' = parked.response
    /\ thrown' = parked.thrown
    /\ downloadErr' = parked.downloadErr
    /\ timer' = parked.timer
    /\ hist' = parked.hist
    /\ UNCHANGED <<clientFiles, disk, removeLog, image, imagePdf, issued>>

\* Most files a concurrent request carries.
MaxShared == 1

\* Both requests draw from the same names: a valid PDF and a corrupt one.
SharedCatalog == {f \in Catalog : f.content.fmt \in {"pdf", "corrupt"}}

SharedOrderFields == { Absent, Field(<<LBracket>>) }

PostShared ==
    /\ pc = "listening"
    /\ formData' \in [files : SeqsUpTo(SharedCatalog, MaxShared),
                      order : SharedOrderFields]
    /\ pc' = "posted"
    /\ UNCHANGED <<clientFiles, reqFiles, reqOrder, allFiles, idx, pending,
                   mergedPages, disk, removeLog, outputPath, response, thrown,
                   downloadErr, timer, hist, image, imagePdf, parked, issued>>

\* uuidv4() over the life of the process: the n-th value it returns.  No
\* value is returned twice.
HexDigits == <<"0", "1", "2", "3", "4", "5", "6", "7",
               "8", "9", "a", "b", "c", "d", "e", "f">>

Uuidv4(n) == <<HexDigits[((n \div 16) % 16) + 1], HexDigits[(n % 16) + 1]>>

\* multer.diskStorage with the filename callback drawing on uuidv4().
MulterStoreFresh ==
    /\ pc = "posted"
    /\ \A k \in 1..Len(formData.files) : FileFilter(formData.files[k])
    /\ reqFiles' = [k \in 1..Len(formData.files) |->
                       StoredFile(Uuidv4(issued + k), formData.files[k])]
    /\ issued' = issued + Len(formData.files)
    /\ reqOrder' = formData.order
    /\ disk' = disk \cup PathsOf(reqFiles')
    /\ pc' = "start"
    /\ UNCHANGED <<clientFiles, formData, allFiles, idx, pending, mergedPages,
                   removeLog, outputPath, response, thrown, downloadErr, timer,
                   hist, image, imagePdf, parked>>

\* outputFilename = `merged-${uuidv4()}.pdf`, then fs.writeFile resolves or
\* rejects.
WriteOutputFresh ==
    /\ pc = "write"
    /\ issued' = issued + 1
    /\ \E ok \in BOOLEAN :
         IF ok
           THEN /\ outputPath' = OutputPathOf(Uuidv4(issued + 1))
                /\ disk' = disk \cup {outputPath'}
                /\ idx' = 1
                /\ pc' = "cleanup"
                /\ UNCHANGED thrown
           ELSE /\ thrown' = Error("write", <<"ENOSPC">>, 0)
                /\ idx' = 1
                /\ pc' = "catch"
                /\ UNCHANGED <<outputPath, disk>>
    /\ UNCHANGED <<clientFiles, formData, reqFiles, reqOrder, allFiles, pending,
                   mergedPages, removeLog, response, downloadErr, timer, hist,
                   image, imagePdf, parked>>

Advance(t) ==
    IF t.armed /\ ~t.fired /\ t.elapsed < t.delay
      THEN [t EXCEPT !.elapsed = @ + TickMs]
      ELSE t

\* Time passes for every pending timeout.
TickAll ==
    /\ Advance(timer) # timer \/ Advance(parked.timer) # parked.timer
    /\ timer' = Advance(timer)
    /\ parked' = [parked EXCEPT !.timer = Advance(@)]
    /\ UNCHANGED <<clientFiles, formData, reqFiles, reqOrder, pc, allFiles, idx,
                   pending, mergedPages, disk, removeLog, outputPath, response,
                   thrown, downloadErr, hist, image, imagePdf, issued>>

NextConcurrent ==
    \/ PostShared
    \/ MulterStoreFresh
    \/ RejectEmpty
    \/ OrderThrows
    \/ ResolveOrder
    \/ LoadFile
    \/ AddCopiedPages
    \/ SaveMerged
    \/ WriteOutputFresh
    \/ RemoveUpload
    \/ Download
    \/ DownloadCallback
    \/ TimerFire
    \/ RemoveOnError
    \/ RespondError
    \/ TickAll
    \/ Switch

SpecConcurrent == Init /\ [][NextConcurrent]_vars

\* The storage paths a request owns: its uploads and its output.
OwnPaths(l) ==
    PathsOf(l.reqFiles) \cup (IF l.outputPath = <<>> THEN {} ELSE {l.outputPath})

\* The request still has every upload to read: its own cleanup has not begun.
BeforeCleanup(l) == l.pc \in {"start", "loop", "add", "write"}

\* The request's output is written and its own timeout has not removed it.
OutputDue(l) == l.outputPath # <<>> /\ ~l.timer.fired

\* C13: for any interleaving of two requests, the storage paths of their
\* uploads and outputs are pairwise distinct, and neither request overwrites
\* or deletes a file of the other: until a request starts its own cleanup
\* all its uploads are on disk and unremoved, and until its own timeout fires
\* its output is on disk and unremoved.
C13_RequestsShareNoPath ==
    /\ OwnPaths(Locals) \cap OwnPaths(parked) = {}
    /\ \A l \in {Locals, parked} :
         /\ Cardinality(PathsOf(l.reqFiles)) = Len(l.reqFiles)
         /\ l.outputPath \notin PathsOf(l.reqFiles)
         /\ BeforeCleanup(l) =>
              /\ PathsOf(l.reqFiles) \subseteq disk
              /\ PathsOf(l.reqFiles) \cap removeLog = {}
         /\ OutputDue(l) =>
              /\ l.outputPath \in disk
              /\ l.outputPath \notin removeLog

\* Two requests carrying the same original filename are both in flight: one
\* has written its output while the other is still reading its upload, and
\* the first has already removed its own upload.
C13_Witness ==
    /\ Len(reqFiles) > 0 /\ Len(parked.reqFiles) > 0
    /\ reqFiles[1].originalname = parked.reqFiles[1].originalname
    /\ outputPath # <<>> /\ pc = "callback"
    /\ reqFiles[1].path \in removeLog
    /\ parked.pc = "loop"

====
